---------------------------- MODULE Spec2Model ----------------------------
(***************************************************************************)
(* A model of python/getdist/densities.py: the contour level solver        *)
(* getContourLevels, the density grid contract (GridDensity.setP and       *)
(* GridDensity.normalize), and Density1D (spline cache, trapezoidal        *)
(* integral, initLimitGrids and getLimits).                                *)
(*                                                                         *)
(* Floating point numbers are modelled by exact rationals <<num, den>>     *)
(* in lowest terms, extended as IEEE arithmetic extends the reals:         *)
(* <<0,0>> is NaN, <<1,0>> is +inf and <<-1,0>> is -inf, so that a numpy    *)
(* division by zero yields what numpy yields (a value, not an exception).  *)
(* Rounding error is not modelled.                                         *)
(*                                                                         *)
(* Python indices are kept 0-based as in the source; a TLA+ sequence s is  *)
(* read at Python index i as s[i + 1].                                     *)
(***************************************************************************)
EXTENDS Integers, Sequences, FiniteSets, TLC

(***************************************************************************)
(* Bounds of the model.                                                    *)
(***************************************************************************)
\* largest integer weight of an input bin
MaxW == 2
\* largest number of cells of a grid handed to getContourLevels
MaxCells == 4
\* contours (and probabilities p) are the fractions k / ProbDen, 0 <= k <= ProbDen
ProbDen == 3
\* largest integer weight of an array handed to a density (Density1D, setP)
MaxPW == 1
\* largest number of points of an axis of a density
MaxN == 4
\* largest number of dimensions of an array handed to a density
MaxDims == 3

(***************************************************************************)
(* Rational arithmetic standing for numpy's float64 arithmetic.            *)
(***************************************************************************)
Abs(i) == IF i < 0 THEN -i ELSE i

Sign(i) == IF i < 0 THEN -1 ELSE IF i > 0 THEN 1 ELSE 0

RECURSIVE GCD(_, _)
GCD(a, b) == IF b = 0 THEN a ELSE GCD(b, a % b)

\* the rational n / d in lowest terms with a non-negative denominator
Rat(n, d) ==
    IF d = 0 THEN <<Sign(n), 0>>
    ELSE LET s == IF d < 0 THEN -1 ELSE 1
             g == GCD(Abs(n), Abs(d))
         IN  <<(s * n) \div g, (s * d) \div g>>

R(i) == <<i, 1>>
NaN == <<0, 0>>
IsNaN(a) == a = NaN
IsFinite(a) == a[2] # 0

RAdd(a, b) ==
    IF a[2] = 0 /\ b[2] = 0
    THEN (IF a = b THEN a ELSE NaN)
    ELSE Rat(a[1] * b[2] + b[1] * a[2], a[2] * b[2])

RNeg(a) == <<-a[1], a[2]>>
RSub(a, b) == RAdd(a, RNeg(b))
RMul(a, b) == Rat(a[1] * b[1], a[2] * b[2])
RDiv(a, b) == Rat(a[1] * b[2], a[2] * b[1])

RLt(a, b) ==
    IF IsNaN(a) \/ IsNaN(b) THEN FALSE
    ELSE IF a[2] = 0 /\ b[2] = 0 THEN a[1] < b[1]
    ELSE a[1] * b[2] < b[1] * a[2]

RLe(a, b) == IF IsNaN(a) \/ IsNaN(b) THEN FALSE ELSE a = b \/ RLt(a, b)
RGt(a, b) == RLt(b, a)
RGe(a, b) == RLe(b, a)

(***************************************************************************)
(* numpy helpers on flat sequences.                                        *)
(***************************************************************************)
\* a sequence given by a function expression, as an explicit tuple (the
\* entries are then computed once, not at every use)
Tuple(f) == SubSeq(f, 1, Len(f))

RECURSIVE SumSeq(_)
\* np.sum
SumSeq(s) == IF s = <<>> THEN R(0) ELSE RAdd(s[1], SumSeq(Tail(s)))

RECURSIVE CumSumFrom(_, _)
CumSumFrom(acc, s) ==
    IF s = <<>> THEN <<>>
    ELSE LET t == RAdd(acc, s[1]) IN <<t>> \o CumSumFrom(t, Tail(s))

\* np.cumsum
CumSum(s) == CumSumFrom(R(0), s)

\* np.searchsorted(a, v), side='left', on an ascending a: the 0-based
\* insertion index, i.e. the number of entries strictly below v
SearchSorted(a, v) == Cardinality({j \in 1..Len(a) : RLt(a[j], v)})

RECURSIVE Prod(_)
Prod(shape) == IF shape = <<>> THEN 1 ELSE shape[1] * Prod(Tail(shape))

RECURSIVE Pow2(_)
Pow2(k) == IF k = 0 THEN 1 ELSE 2 * Pow2(k - 1)

\* the 1-based coordinate along axis ax of the cell at 1-based flat
\* (row-major) position pos of an array of the given shape
Coord(shape, pos, ax) ==
    LET stride == Prod(SubSeq(shape, ax + 1, Len(shape)))
    IN  (((pos - 1) \div stride) % shape[ax]) + 1


(***************************************************************************)
(* getContourLevels (the contour level solver).                            *)
(* An array is a record [shape, data]: data is the row-major flattening    *)
(* (what reshape(-1) yields) of an array of that shape.                    *)
(***************************************************************************)
\* the number of halvings the half_edge loop applies to the cell at flat
\* position pos: per axis, one for the last slice and one for the first
EdgeCount(shape, pos) ==
    LET hits(ax) == (IF Coord(shape, pos, ax) = shape[ax] THEN 1 ELSE 0)
                    + (IF Coord(shape, pos, ax) = 1 THEN 1 ELSE 0)
        RECURSIVE over(_)
        over(ax) == IF ax = 0 THEN 0 ELSE hits(ax) + over(ax - 1)
    IN  over(Len(shape))

\* abins: the copy with the boundary slices of every axis halved, or inbins
\* itself when half_edge is false
AdjustedBins(inbins, half_edge) ==
    IF half_edge
    THEN Tuple([pos \in 1..Len(inbins.data) |->
            RDiv(inbins.data[pos], R(Pow2(EdgeCount(inbins.shape, pos))))])
    ELSE inbins.data

RECURSIVE AscendingOrders(_, _)
\* the listings of the positions in `left` by ascending weight
AscendingOrders(data, left) ==
    IF left = {} THEN {<<>>}
    ELSE LET least == {i \in left : \A j \in left : RLe(data[i], data[j])}
         IN  UNION {{<<i>> \o t : t \in AscendingOrders(data, left \ {i})} : i \in least}

\* the outcomes of inbins.reshape(-1).argsort(): the permutations that list
\* the original weights in ascending order (argsort's default sort kind is
\* not stable, so equal weights may come in any order)
ArgSorts(data) == AscendingOrders(data, 1..Len(data))

\* targets = (1 - np.array(contours)) * norm - missing_norm
Targets(contours, norm, missing_norm) ==
    Tuple([i \in 1..Len(contours) |->
        RSub(RMul(RSub(R(1), contours[i]), norm), missing_norm)])

\* bins[indexes]
Take(bins, idx) == Tuple([i \in 1..Len(idx) |-> bins[idx[i]]])

\* one pass of the loop body for insertion index ix > 0
InterpLevel(sortgrid, cumsum, target, ix) ==
    LET h == RSub(cumsum[ix + 1], cumsum[ix])
        d == RDiv(RSub(cumsum[ix + 1], target), h)
    IN  RAdd(RMul(sortgrid[ix + 1], RSub(R(1), d)), RMul(d, sortgrid[ix]))

Raise(err) == [kind |-> "raise", error |-> err, value |-> <<>>]
Return(v) == [kind |-> "return", error |-> "", value |-> v]
NoCall == [kind |-> "none", error |-> "", value |-> <<>>]

\* ContourLoop as it would be if an out-of-range contour were skipped (its
\* level left at the 0 that np.zeros put there) instead of raising
ContourLoopPartial(sortgrid, cumsum, targets) ==
    LET ixs == Tuple([i \in 1..Len(targets) |-> SearchSorted(cumsum, targets[i])])
    IN  Return(Tuple([i \in 1..Len(targets) |->
            IF ixs[i] = 0 \/ ixs[i] >= Len(cumsum) THEN R(0)
            ELSE InterpLevel(sortgrid, cumsum, targets[i], ixs[i])]))

\* the loop over ixs: the first contour whose index is 0 raises
\* DensitiesError, an index past the end is an IndexError of cumsum[ix]
ContourLoop(sortgrid, cumsum, targets) ==
    LET ixs == Tuple([i \in 1..Len(targets) |-> SearchSorted(cumsum, targets[i])])
        bad == {i \in 1..Len(targets) : ixs[i] = 0 \/ ixs[i] >= Len(cumsum)}
        first == CHOOSE i \in bad : \A j \in bad : i <= j
    IN  IF bad # {}
        THEN (IF ixs[first] = 0 THEN Raise("DensitiesError") ELSE Raise("IndexError"))
        ELSE Return(Tuple([i \in 1..Len(targets) |->
                        InterpLevel(sortgrid, cumsum, targets[i], ixs[i])]))

\* getContourLevels with argsort's outcome given
getContourLevels(inbins, contours, missing_norm, half_edge, indexes) ==
    LET abins == AdjustedBins(inbins, half_edge)
        norm == SumSeq(abins)
        targets == Targets(contours, norm, missing_norm)
        sortgrid == Take(abins, indexes)
        cumsum == CumSum(sortgrid)
    IN  ContourLoop(sortgrid, cumsum, targets)


(***************************************************************************)
(* State.                                                                  *)
(***************************************************************************)
VARIABLES
    \* --- a call of getContourLevels ---
    inbins,          \* the weight array [shape, data] (self.P of a grid)
    contours,        \* the requested contours
    indexes,         \* what argsort returned (<<>> before the call)
    contour_levels,  \* the outcome of the call
    \* --- a Density1D instance and the arrays it refers to ---
    x,               \* self.x, the axis (self.n = Len(x), self.axes = [x])
    heap,            \* the numpy array objects alive: id -> data
    P,               \* self.P: the id of the array the grid holds
    held,            \* the id of the array the caller holds a reference to
    spl,             \* self.spl: [set, y]; y is the data splrep was given
    builds,          \* calls of _initSpline since P was last assigned or rescaled
    last,            \* the last call on the instance and its outcome
    \* --- a call of Density1D.getLimits ---
    p,               \* the argument p: [kind, vals]
    accuracy_factor, \* the refinement factor asked for
    curve,           \* what splev yields on the refined points
    limits,          \* the outcome of the call
    \* --- a density grid with its arrays reduced to their shapes ---
    axes,            \* the sizes of self.axes ([x], or [y, x] for Density2D)
    made,            \* whether the constructor has returned an instance
    Pshape,          \* self.P.shape
    shape_last       \* the last call and its outcome

contourVars == <<inbins, contours, indexes, contour_levels>>
gridVars == <<x, heap, P, held, spl, builds, last>>
limitVars == <<p, accuracy_factor, curve, limits>>
shapeVars == <<axes, made, Pshape, shape_last>>
vars == <<contourVars, gridVars, limitVars, shapeVars>>
\* what the operations of the Density1D instance leave alone
otherVars == <<contourVars, limitVars, shapeVars>>

(***************************************************************************)
(* GridDensity and Density1D.                                              *)
(***************************************************************************)
\* scipy's splrep is called with its default degree k = 3
SplineDegree == 3

None == [set |-> FALSE, y |-> <<>>]
Spline(y) == [set |-> TRUE, y |-> y]

\* the loop of setP: zip(P.shape, self.axes) pairs the dimensions up to the
\* shorter of the two, and a pair of different sizes raises
ShapeCheckOK(shape, axsizes) ==
    \A i \in 1..(IF Len(shape) < Len(axsizes) THEN Len(shape) ELSE Len(axsizes)) :
        shape[i] = axsizes[i]

Zeros(n) == [i \in 1..n |-> R(0)]

\* Density1D.integrate: ((P[0] + P[-1]) / 2 + np.sum(P[1:-1])) * self.spacing
integrate(data, spacing) ==
    RMul(RAdd(RDiv(RAdd(data[1], data[Len(data)]), R(2)),
              SumSeq(SubSeq(data, 2, Len(data) - 1))),
         spacing)

\* self.spacing = x[1] - x[0]
Spacing(xs) == RSub(xs[2], xs[1])

\* Density1D.norm_integral
norm_integral(xs, data) == integrate(data, Spacing(xs))

\* np.max: a NaN entry makes the maximum NaN
NpMax(data) ==
    IF \E i \in 1..Len(data) : IsNaN(data[i]) THEN NaN
    ELSE data[CHOOSE i \in 1..Len(data) : \A j \in 1..Len(data) : RLe(data[j], data[i])]

\* self.P / norm
Scaled(data, norm) == Tuple([i \in 1..Len(data) |-> RDiv(data[i], norm)])

\* NormOf as it would be if 'integral' took the plain sum of the weights
NormOfPlainSum(xs, data, by) ==
    IF by = "integral" THEN SumSeq(data) ELSE NpMax(data)

\* the norm normalize divides by ("integral" or "max")
NormOf(xs, data, by) ==
    IF by = "integral" THEN norm_integral(xs, data) ELSE NpMax(data)

\* the error normalize raises before it touches P, "" when none
NormalizeError(data, by) ==
    IF by = "integral" THEN ""
    ELSE IF by = "max" THEN (IF NpMax(data) = R(0) THEN "DensitiesError" ELSE "")
    ELSE "DensitiesError"

\* an id no live array has
FreshId(keep) == CHOOSE i \in 1..3 : i \notin keep

\* Rescale as it would be if normalize ignored in_place and always divided
\* the array it holds
RescaleAlwaysInPlace(h, ref, norm, in_place) ==
    [heap |-> [h EXCEPT ![ref] = Scaled(h[ref], norm)], P |-> ref]

\* the arrays and the grid's reference after normalize has rescaled by norm:
\* in place the array object the grid holds is overwritten; otherwise setP
\* binds self.P to the new array self.P / norm and the old one is left alone
Rescale(h, ref, norm, in_place) ==
    IF in_place
    THEN [heap |-> [h EXCEPT ![ref] = Scaled(h[ref], norm)], P |-> ref]
    ELSE LET id == FreshId({ref})
         IN  [heap |-> (ref :> h[ref]) @@ (id :> Scaled(h[ref], norm)), P |-> id]

\* ClearedSpline as it would be if the call forgot "self.spl = None"
KeptSpline(s) == s

\* self.spl after a call that assigned or rescaled P
ClearedSpline(s) == None

\* self.spl after "if self.spl is None: self._initSpline()"
EnsuredSpline(s, data) == IF s.set THEN s ELSE Spline(data)

\* splrep needs more points than the degree of the spline
CanBuild(xs) == Len(xs) > SplineDegree

Call(op, by, in_place, outcome, error, pre, value) ==
    [op |-> op, by |-> by, in_place |-> in_place, outcome |-> outcome,
     error |-> error, pre |-> pre, value |-> value]


(***************************************************************************)
(* Input domains.                                                          *)
(***************************************************************************)
RECURSIVE SeqsOfLen(_, _)
\* the sequences of length n over S
SeqsOfLen(S, n) ==
    IF n = 0 THEN {<<>>}
    ELSE {<<e>> \o t : e \in S, t \in SeqsOfLen(S, n - 1)}

\* the fractions k / ProbDen in [0, 1]
Probs == {Rat(k, ProbDen) : k \in 0..ProbDen}

\* weight arrays of n non-negative integer weights
WeightArrays(n) == SeqsOfLen({R(w) : w \in 0..MaxPW}, n)

\* the arrays a caller hands to setP: the constant ones and the ramp 0, 1, 2, ...
\* cut at the largest weight
CallerArrays(n) ==
    {[i \in 1..n |-> R(w)] : w \in 0..MaxPW}
        \cup {[i \in 1..n |-> R(IF i - 1 < MaxPW THEN i - 1 ELSE MaxPW)]}

\* uniformly spaced ascending axes starting at 0
Axis(n, sp) == [i \in 1..n |-> R((i - 1) * sp)]
AxisSpacings == {1, 2}

\* the state of the other component while one is being exercised
ContourIdle ==
    /\ inbins = [shape |-> <<>>, data |-> <<>>]
    /\ contours = <<>>
    /\ indexes = <<>>
    /\ contour_levels = NoCall

NoLimits ==
    [kind |-> "none", error |-> "", isList |-> FALSE, items |-> <<>>,
     wrapped |-> FALSE, divzero |-> FALSE]

LimitsIdle ==
    /\ p = [kind |-> "scalar", vals |-> <<>>]
    /\ accuracy_factor = 1
    /\ curve = <<>>
    /\ limits = NoLimits

ShapeCall(op, arg, outcome, error) ==
    [op |-> op, arg |-> arg, outcome |-> outcome, error |-> error]

ShapeIdle ==
    /\ axes = <<2>>
    /\ made = FALSE
    /\ Pshape = <<>>
    /\ shape_last = ShapeCall("none", <<>>, "ok", "")

(***************************************************************************)
(* A Density1D instance under its operations.                              *)
(***************************************************************************)
\* Density1D.__init__(x, P): the state once the constructor has returned
\* (P=None zero-fills, which is one of the weight arrays)
GridInit ==
    /\ \E n \in 2..MaxN, sp \in AxisSpacings : x = Axis(n, sp)
    /\ \E data \in WeightArrays(Len(x)) : heap = (1 :> data)
    /\ P = 1
    /\ held = 1
    /\ spl = None
    /\ builds = 0
    /\ last = Call("init", "", FALSE, "ok", "", <<>>, <<>>)

\* The arrays alive after a call, named anew: the array the grid holds is 1,
\* the array the caller holds is 1 as well when it is the same object, else 2
Live(h, ref, hd) == IF ref = hd THEN (1 :> h[ref]) ELSE (1 :> h[ref]) @@ (2 :> h[hd])
LiveHeld(ref, hd) == IF ref = hd THEN 1 ELSE 2

\* GridDensity.setP(P) with an array the caller made (and keeps)
SetP(data) ==
    /\ IF ShapeCheckOK(<<Len(data)>>, <<Len(x)>>)
       THEN LET id == FreshId({P, held})
                h == heap @@ (id :> data)
            IN  /\ heap' = Live(h, id, id)
                /\ P' = 1
                /\ held' = LiveHeld(id, id)
                /\ spl' = ClearedSpline(spl)
                /\ builds' = 0
                /\ last' = Call("setP", "", FALSE, "ok", "", <<>>, <<>>)
                /\ UNCHANGED x
       ELSE /\ last' = Call("setP", "", FALSE, "raise", "DensitiesError", <<>>, <<>>)
            /\ UNCHANGED <<x, heap, P, held, spl, builds>>
    /\ UNCHANGED otherVars

\* GridDensity.setP(None): a new array of zeros
SetPNone ==
    LET id == FreshId({P, held})
        h == heap @@ (id :> Zeros(Len(x)))
    IN  /\ heap' = Live(h, id, id)
        /\ P' = 1
        /\ held' = LiveHeld(id, id)
        /\ spl' = ClearedSpline(spl)
        /\ builds' = 0
        /\ last' = Call("setP", "None", FALSE, "ok", "", <<>>, <<>>)
        /\ UNCHANGED <<x, otherVars>>

\* GridDensity.normalize(by, in_place); the caller keeps a reference to the
\* array the grid held when the call was made
Normalize(by, in_place) ==
    LET pre == heap[P]
        err == NormalizeError(pre, by)
    IN  /\ IF err # ""
           THEN /\ last' = Call("normalize", by, in_place, "raise", err, pre, <<>>)
                /\ UNCHANGED <<x, heap, P, held, spl, builds>>
           ELSE LET r == Rescale(heap, P, NormOf(x, pre, by), in_place) IN
                /\ heap' = Live(r.heap, r.P, P)
                /\ P' = 1
                /\ held' = LiveHeld(r.P, P)
                /\ spl' = ClearedSpline(spl)
                /\ builds' = 0
                /\ last' = Call("normalize", by, in_place, "ok", "", pre, <<"self">>)
                /\ UNCHANGED x
        /\ UNCHANGED otherVars

\* "if self.spl is None: self._initSpline()" as Prob and initLimitGrids run
\* it; splrep raises on an axis of too few points and self.spl stays None.
\* value is what the method returns once the spline is there
Ensure(op, value) ==
    /\ IF ~spl.set /\ ~CanBuild(x)
       THEN /\ last' = Call(op, "", FALSE, "raise", "TypeError", <<>>, <<>>)
            /\ UNCHANGED <<x, heap, P, held, spl, builds>>
       ELSE /\ spl' = EnsuredSpline(spl, heap[P])
            /\ builds' = IF spl.set THEN builds ELSE (IF builds < 2 THEN builds + 1 ELSE 2)
            /\ last' = Call(op, "", FALSE, "ok", "", <<>>, value)
            /\ UNCHANGED <<x, heap, P, held>>
    /\ UNCHANGED otherVars

\* splev(xq, spl, ext=1) where the model can tell its value: the spline of
\* s=0 passes through the points it was built from, and is 0 outside the axis.
\* q = 0 is a point below x[0], q = n + 1 one above x[-1], else the node x[q-1]
SplevAt(s, q) == IF q = 0 \/ q = Len(s.y) + 1 THEN <<R(0)>> ELSE <<s.y[q]>>

\* Density1D.Prob(x)
Prob(q) ==
    Ensure("Prob", SplevAt(EnsuredSpline(spl, heap[P]), q))

\* Density1D.initLimitGrids(): its effect on the instance (the grid it
\* returns is the caller's)
InitLimitGrids ==
    Ensure("initLimitGrids", <<>>)

Next ==
    \/ \E n \in (Len(x) - 1)..(Len(x) + 1) : \E data \in CallerArrays(n) : SetP(data)
    \/ SetPNone
    \/ \E by \in {"integral", "max", "mean"}, in_place \in BOOLEAN : Normalize(by, in_place)
    \/ \E q \in 0..(Len(x) + 1) : Prob(q)
    \/ InitLimitGrids

Init == GridInit /\ ContourIdle /\ LimitsIdle /\ ShapeIdle

Spec == Init /\ [][Next]_vars


(***************************************************************************)
(* getContourLevels applied to drawn inputs.                               *)
(***************************************************************************)
GridIdle ==
    /\ x = Axis(2, 1)
    /\ heap = (1 :> Zeros(2))
    /\ P = 1
    /\ held = 1
    /\ spl = None
    /\ builds = 0
    /\ last = Call("init", "", FALSE, "ok", "", <<>>, <<>>)

\* the shapes of the weight grids: 1D, and 2D with at least two points per axis
ContourShapes ==
    {<<n>> : n \in 1..MaxCells}
        \cup {sh \in {<<r, c>> : r \in 2..MaxCells, c \in 2..MaxCells} :
                sh[1] * sh[2] <= MaxCells}

\* the 5-bin histogram [1,2,5,2,1] asked for the contour 0.999999
ExampleBins == [shape |-> <<5>>, data |-> <<R(1), R(2), R(5), R(2), R(1)>>]
ExampleContours == <<Rat(999999, 1000000)>>

\* the requested contours: one, or two in ascending order
ContourLists ==
    SeqsOfLen(Probs, 1) \cup {cs \in SeqsOfLen(Probs, 2) : RLt(cs[1], cs[2])}

ContourInit ==
    /\ \/ /\ \E sh \in ContourShapes :
                \E d \in SeqsOfLen({R(w) : w \in 0..MaxW}, Prod(sh)) :
                    inbins = [shape |-> sh, data |-> d]
          /\ contours \in ContourLists
       \/ /\ inbins = ExampleBins
          /\ contours = ExampleContours
    /\ indexes = <<>>
    /\ contour_levels = NoCall

\* GridDensity.getContourLevels(contours): the solver on the grid's weights
\* with its defaults missing_norm=0 and half_edge=True
GetContourLevels ==
    /\ contour_levels.kind = "none"
    /\ \E idx \in ArgSorts(inbins.data) :
        /\ indexes' = idx
        /\ contour_levels' = getContourLevels(inbins, contours, R(0), TRUE, idx)
    /\ UNCHANGED <<inbins, contours, gridVars, limitVars, shapeVars>>

InitContour == ContourInit /\ GridIdle /\ LimitsIdle /\ ShapeIdle

NextContour == GetContourLevels

SpecContour == InitContour /\ [][NextContour]_vars


(***************************************************************************)
(* Properties of the Density1D instance (specification Spec).              *)
(***************************************************************************)
NormalizedOk == last.op = "normalize" /\ last.outcome = "ok"

NonNegative(data) == \A i \in 1..Len(data) : IsFinite(data[i]) /\ RGe(data[i], R(0))
SomePositive(data) == \E i \in 1..Len(data) : RGt(data[i], R(0))

\* C5: the cached spline is absent or was built from the weights the grid
\* holds now; a successful setP or normalize leaves it absent; and it is
\* built at most once between two assignments or rescalings of P.
CacheCoherent ==
    /\ spl.set => spl.y = heap[P]
    /\ (last.op \in {"setP", "normalize"} /\ last.outcome = "ok") => ~spl.set
    /\ (last.op \in {"Prob", "initLimitGrids"} /\ last.outcome = "ok") => spl.set
    /\ builds <= 1

\* C5 witness: Prob has rebuilt the spline of a grid that was rescaled into a
\* new array beforehand.
CacheRebuiltAfterRescale ==
    /\ last.op = "Prob" /\ last.outcome = "ok"
    /\ spl.set /\ builds = 1
    /\ P # held /\ heap[P] # heap[held]

\* what norm_integral() returns now, and the weights a further
\* normalize(by='integral') would leave
IntegralNow == norm_integral(x, heap[P])
RenormalizedNow == Scaled(heap[P], NormOf(x, heap[P], "integral"))

\* C6 as stated: after normalize(by='integral') on any non-negative weights,
\* norm_integral() is 1 and a second normalization changes nothing.
IntegralRoundTripAnyGrid ==
    (NormalizedOk /\ last.by = "integral" /\ NonNegative(last.pre))
        => (IntegralNow = R(1) /\ RenormalizedNow = heap[P])

\* C6 amended: the same for non-negative weights that are not all zero (the
\* integral of an all-zero grid is 0 and the division yields NaN weights).
IntegralRoundTrip ==
    (NormalizedOk /\ last.by = "integral" /\ NonNegative(last.pre)
        /\ SomePositive(last.pre))
        => (IntegralNow = R(1) /\ RenormalizedNow = heap[P])

\* C6 witness: an integral normalization that did change the weights.
IntegralRescaled ==
    /\ NormalizedOk /\ last.by = "integral"
    /\ NonNegative(last.pre) /\ SomePositive(last.pre)
    /\ heap[P] # last.pre
    /\ Len(x) > 2

\* C8 as stated: normalize with in_place=false yields a new grid and leaves
\* the receiver with its original weights.
NormalizeLeavesReceiver ==
    NormalizedOk =>
        /\ ~spl.set
        /\ ~last.in_place =>
              (heap[P] = last.pre /\ heap[held] = last.pre)
        /\ last.in_place => heap[P] = Scaled(last.pre, NormOf(x, last.pre, last.by))

\* C8 amended: normalize returns the receiver, whose P then carries the
\* rescaled weights. With in_place=false P is a new array and the array the
\* grid held before is not modified; with in_place=true that array itself
\* is rescaled. The cache is absent in both cases.
NormalizeRebindsReceiver ==
    NormalizedOk =>
        /\ ~spl.set
        /\ last.value = <<"self">>
        /\ heap[P] = Scaled(last.pre, NormOf(x, last.pre, last.by))
        /\ ~last.in_place => (P # held /\ heap[held] = last.pre)
        /\ last.in_place => P = held

\* C8 witness: a normalize with in_place=false that changed the weights.
NormalizeCopyRescaled ==
    /\ NormalizedOk /\ ~last.in_place
    /\ NonNegative(last.pre)
    /\ heap[P] # last.pre

(***************************************************************************)
(* Properties of getContourLevels (specification SpecContour).             *)
(***************************************************************************)
Called == contour_levels.kind # "none"
Abins == AdjustedBins(inbins, TRUE)
CallTargets == Targets(contours, SumSeq(Abins), R(0))
CallCumsum == CumSum(Take(Abins, indexes))
SortedOriginal == Take(inbins.data, indexes)

\* the contours whose target is at or below the smallest cumulative value
OutOfRange ==
    LET targets == CallTargets
        least == CallCumsum[1]
    IN  {i \in 1..Len(contours) : RLe(targets[i], least)}

\* C7: the call raises, and returns no level at all, exactly when some
\* requested contour has its target at or below the smallest value of the
\* cumulative sum; otherwise it returns one level per contour. The 5-bin
\* histogram [1,2,5,2,1] with contour 0.999999 raises.
ContourOutOfRangeFailsWhole ==
    Called =>
        LET out == OutOfRange IN
        /\ (out # {}) <=> (contour_levels = Raise("DensitiesError"))
        /\ (out = {}) <=>
              (contour_levels.kind = "return"
                  /\ Len(contour_levels.value) = Len(contours))
        /\ inbins = ExampleBins => contour_levels.kind = "raise"

\* C7 witness: the first of two contours is in range, the second is not, and
\* the call has raised.
LaterContourOutOfRange ==
    /\ Called
    /\ Len(contours) = 2
    /\ OutOfRange = {2}
    /\ contour_levels.kind = "raise"

\* C1: of two contours c1 < c2 the level returned for c1 is at least the
\* level returned for c2.
ContourLevelsMonotone ==
    (contour_levels.kind = "return" /\ Len(contours) = 2)
        => RGe(contour_levels.value[1], contour_levels.value[2])

\* C9: the ordering sorts the original weights ascending, and each returned
\* level is the interpolation between the sorted original entries at ix-1
\* and ix, with the weight d taken from the cumulative sum of the halved
\* weights; so each level lies between the least and the largest weight.
ContourInterpolatesOriginal ==
    contour_levels.kind = "return" =>
        /\ \A i \in 1..(Len(indexes) - 1) : RLe(SortedOriginal[i], SortedOriginal[i + 1])
        /\ \A i \in 1..Len(contours) :
              LET ix == SearchSorted(CallCumsum, CallTargets[i])
                  d == RDiv(RSub(CallCumsum[ix + 1], CallTargets[i]),
                            RSub(CallCumsum[ix + 1], CallCumsum[ix]))
              IN  /\ contour_levels.value[i] =
                        RAdd(RMul(SortedOriginal[ix + 1], RSub(R(1), d)),
                             RMul(d, SortedOriginal[ix]))
                  /\ RLe(SortedOriginal[1], contour_levels.value[i])
                  /\ RLe(contour_levels.value[i], SortedOriginal[Len(indexes)])


(***************************************************************************)
(* Density1D.initLimitGrids and Density1D.getLimits.                       *)
(***************************************************************************)
\* g.factor: max(2, 20000 // self.n) when no factor is given (factor 0
\* stands for None)
GridFactor(factor, n) ==
    IF factor = 0
    THEN (IF 20000 \div n > 2 THEN 20000 \div n ELSE 2)
    ELSE factor

\* g.bign = (self.n - 1) * g.factor + 1
BigN(n, factor) == (n - 1) * factor + 1

RECURSIVE SortedFrom(_, _)
SortedFrom(data, left) ==
    IF left = {} THEN <<>>
    ELSE LET i == CHOOSE k \in left : \A j \in left : RLe(data[k], data[j])
         IN  <<data[i]>> \o SortedFrom(data, left \ {i})

\* np.sort: the values in ascending order
NpSort(data) == SortedFrom(data, 1..Len(data))

\* the InterpGrid initLimitGrids returns, given what splev yields on vecx
InterpGrid(xs, data, factor, grid) ==
    LET sorted == NpSort(grid) IN
    [factor |-> factor,
     bign |-> BigN(Len(xs), factor),
     grid |-> grid,
     norm |-> RSub(RSub(SumSeq(grid), RMul(Rat(1, 2), data[Len(data)])),
                   RMul(Rat(1, 2), data[1])),
     sortgrid |-> sorted,
     cumsum |-> CumSum(sorted)]

\* np.argmax(b) of a boolean array given as the set of its true positions
\* (0-based): the first true position, 0 when there is none
ArgMaxTrue(trues) ==
    IF trues = {} THEN 0 ELSE CHOOSE i \in trues : \A j \in trues : i <= j

LimitFail(wrapped, divzero) ==
    [err |-> "IndexError", t |-> <<>>, wrapped |-> wrapped, divzero |-> divzero]

\* the scans of the loop body of getLimits once the threshold trial is known
LimitScan(g, xs, trial) ==
    LET n == g.bign
        finespace == RDiv(Spacing(xs), R(g.factor))
        above == {i \in 0..(n - 1) : RGt(g.grid[i + 1], trial)}
        lim_bot == RGe(g.grid[1], trial)
        ib == ArgMaxTrue(above)
        \* g.grid[ib - 1]: index -1 is the last entry
        before == IF ib = 0 THEN g.grid[n] ELSE g.grid[ib]
        db == RDiv(RSub(g.grid[ib + 1], trial), RSub(g.grid[ib + 1], before))
        mn == IF lim_bot THEN xs[1]
              ELSE RAdd(xs[1], RMul(RSub(R(ib), db), finespace))
        wrapped == ~lim_bot /\ ib = 0
        divb == ~lim_bot /\ g.grid[ib + 1] = before
        lim_top == RGe(g.grid[n], trial)
        \* np.argmax(g.grid[::-1] > trial): the position from the end
        fromEnd == ArgMaxTrue({n - 1 - i : i \in above})
        it == n - fromEnd - 1
    IN  IF lim_top
        THEN [err |-> "", t |-> <<mn, xs[Len(xs)], lim_bot, lim_top>>,
              wrapped |-> wrapped, divzero |-> divb]
        ELSE IF it + 1 >= n
        THEN LimitFail(wrapped, divb)
        ELSE LET dt == RDiv(RSub(g.grid[it + 1], trial),
                            RSub(g.grid[it + 1], g.grid[it + 2]))
                 mx == RAdd(xs[1], RMul(RAdd(R(it), dt), finespace))
             IN  [err |-> "", t |-> <<mn, mx, lim_bot, lim_top>>,
                  wrapped |-> wrapped,
                  divzero |-> divb \/ g.grid[it + 1] = g.grid[it + 2]]

\* one pass of the loop of getLimits, for one target
LimitFor(g, xs, target) ==
    LET ix == SearchSorted(g.cumsum, target) IN
    IF ix >= g.bign THEN LimitFail(FALSE, FALSE)
    ELSE IF ix = 0 THEN LimitScan(g, xs, g.sortgrid[1])
    ELSE IF ix + 1 >= g.bign THEN LimitFail(FALSE, FALSE)
    ELSE LET d == RSub(g.cumsum[ix + 1], g.cumsum[ix])
             frac == RDiv(RSub(g.cumsum[ix + 1], target), d)
             trial == RAdd(RMul(RSub(R(1), frac), g.sortgrid[ix + 1]),
                           RMul(frac, g.sortgrid[ix + 2]))
         IN  LimitScan(g, xs, trial)

\* np.atleast_1d(p) is p itself only when p is an array of one dimension or
\* more; of a scalar, a list or a tuple it is a new array
SameArray(pv) == pv.kind = "ndarray"

\* getLimits(p, interpGrid=g)
getLimits(g, xs, pv) ==
    LET targets == Tuple([i \in 1..Len(pv.vals) |-> RMul(RSub(R(1), pv.vals[i]), g.norm)])
        res == Tuple([i \in 1..Len(targets) |-> LimitFor(g, xs, targets[i])])
        \* the passes the loop makes: up to the first that raises, and only
        \* the first when "parr is not p" returns from inside the loop
        bad == {i \in 1..Len(res) : res[i].err # ""}
        stop == IF bad = {} THEN Len(res) ELSE CHOOSE i \in bad : \A j \in bad : i <= j
        passes == IF Len(res) = 0 THEN 0 ELSE IF SameArray(pv) THEN stop ELSE 1
        wrapped == \E i \in 1..passes : res[i].wrapped
        divzero == \E i \in 1..passes : res[i].divzero
    IN  IF passes > 0 /\ res[passes].err # ""
        THEN [kind |-> "raise", error |-> res[passes].err, isList |-> FALSE,
              items |-> <<>>, wrapped |-> wrapped, divzero |-> divzero]
        ELSE IF passes > 0 /\ ~SameArray(pv)
        THEN [kind |-> "return", error |-> "", isList |-> FALSE,
              items |-> <<res[1].t>>, wrapped |-> wrapped, divzero |-> divzero]
        ELSE [kind |-> "return", error |-> "", isList |-> TRUE,
              items |-> Tuple([i \in 1..passes |-> res[i].t]),
              wrapped |-> wrapped, divzero |-> divzero]

(***************************************************************************)
(* getLimits applied to drawn inputs.                                      *)
(***************************************************************************)
RefineFactors == {1, 2}

\* what splev can yield on the refined points of the spline through
\* (xs, data): the spline of s=0 passes through data at every factor-th
\* point; between two of them the model lets it take any weight that lies
\* between the two
RefinedCurves(data, factor) ==
    {c \in SeqsOfLen({R(w) : w \in 0..MaxPW}, BigN(Len(data), factor)) :
        /\ \A i \in 1..Len(data) : c[(i - 1) * factor + 1] = data[i]
        /\ \A i \in 1..(Len(data) - 1) : \A k \in 1..(factor - 1) :
              LET v == c[(i - 1) * factor + 1 + k] IN
              \/ RLe(data[i], v) /\ RLe(v, data[i + 1])
              \/ RLe(data[i + 1], v) /\ RLe(v, data[i])}

\* the arguments p: a scalar, or a list, a tuple or an array of up to two
PArguments ==
    {[kind |-> "scalar", vals |-> <<v>>] : v \in Probs}
        \cup {[kind |-> k, vals |-> vs] :
                k \in {"list", "tuple", "ndarray"},
                vs \in SeqsOfLen(Probs, 0) \cup SeqsOfLen(Probs, 1) \cup SeqsOfLen(Probs, 2)}

LimitsInit ==
    /\ \E n \in (SplineDegree + 1)..MaxN, sp \in AxisSpacings : x = Axis(n, sp)
    /\ \E data \in WeightArrays(Len(x)) : heap = (1 :> data)
    /\ P = 1
    /\ held = 1
    /\ spl = None
    /\ builds = 0
    /\ last = Call("init", "", FALSE, "ok", "", <<>>, <<>>)
    /\ p \in PArguments
    /\ accuracy_factor \in RefineFactors
    /\ curve \in RefinedCurves(heap[P], accuracy_factor)
    /\ limits = NoLimits

\* Density1D.getLimits(p, accuracy_factor=accuracy_factor): initLimitGrids
\* builds the spline and the refined grid, then the limits are searched
GetLimits ==
    /\ limits.kind = "none"
    /\ spl' = EnsuredSpline(spl, heap[P])
    /\ builds' = IF spl.set THEN builds ELSE builds + 1
    /\ limits' = getLimits(InterpGrid(x, heap[P], GridFactor(accuracy_factor, Len(x)), curve), x, p)
    /\ last' = Call("getLimits", "", FALSE, limits'.kind, limits'.error, <<>>, <<>>)
    /\ UNCHANGED <<x, heap, P, held, p, accuracy_factor, curve, contourVars, shapeVars>>

InitLimits == LimitsInit /\ ContourIdle /\ ShapeIdle

NextLimits == GetLimits

SpecLimits == InitLimits /\ [][NextLimits]_vars


(***************************************************************************)
(* Properties of getLimits (specification SpecLimits).                     *)
(***************************************************************************)
CallGrid == InterpGrid(x, heap[P], GridFactor(accuracy_factor, Len(x)), curve)

\* the tuple the loop body computes for the i-th probability of p
LimitOf(i) == LimitFor(CallGrid, x, RMul(RSub(R(1), p.vals[i]), CallGrid.norm)).t

\* C2: a scalar p returns one tuple; a sequence of k probabilities (a list,
\* a tuple or an array) returns a list of k tuples, the i-th one being the
\* result for the i-th probability.
LimitsResultShape ==
    limits.kind = "return" =>
        /\ p.kind = "scalar" => (~limits.isList /\ limits.items = <<LimitOf(1)>>)
        /\ p.kind # "scalar" =>
              /\ limits.isList
              /\ Len(limits.items) = Len(p.vals)
              /\ \A i \in 1..Len(p.vals) : limits.items[i] = LimitOf(i)

\* C3: p = 1.0 returns (x[0], x[-1], false, false).
LimitsAtFullProbability ==
    (limits.kind # "none" /\ p = [kind |-> "scalar", vals |-> <<R(1)>>])
        => /\ limits.kind = "return"
           /\ limits.items = <<<<x[1], x[Len(x)], FALSE, FALSE>>>>

\* C10: for every p in [0, 1] on non-negative refined samples the call
\* returns a result: no index leaves 0..bign-1 (none raises IndexError and
\* none wraps around to the other end) and no interpolation divides by zero.
LimitsIndexSafe ==
    limits.kind # "none" =>
        /\ limits.kind = "return"
        /\ ~limits.wrapped
        /\ ~limits.divzero


(***************************************************************************)
(* The shape contract of GridDensity: construction, setP and normalize     *)
(* with every array reduced to its shape (a tuple of sizes).               *)
(***************************************************************************)
Min(a, b) == IF a < b THEN a ELSE b
Max(a, b) == IF a > b THEN a ELSE b

\* numpy broadcasting of two shapes, aligned at their last dimensions
Broadcastable(a, b) ==
    \A i \in 1..Min(Len(a), Len(b)) :
        LET da == a[Len(a) - i + 1]
            db == b[Len(b) - i + 1]
        IN  da = db \/ da = 1 \/ db = 1

BroadcastShape(a, b) ==
    [i \in 1..Max(Len(a), Len(b)) |->
        LET ia == i - (Max(Len(a), Len(b)) - Len(a))
            ib == i - (Max(Len(a), Len(b)) - Len(b))
        IN  Max(IF ia >= 1 THEN a[ia] ELSE 1, IF ib >= 1 THEN b[ib] ELSE 1)]

\* the shape of the norm normalize divides by: np.max is a scalar; integrate
\* indexes the leading dimensions away (P[0] for Density1D, P[0, 0] for
\* Density2D) and sums the rest to a scalar
NormShape(shape, axsizes, by) ==
    IF by = "max" THEN <<>> ELSE SubSeq(shape, Len(axsizes) + 1, Len(shape))

\* the array shapes a caller may hand in
ArgShapes == UNION {SeqsOfLen(1..MaxN, d) : d \in 0..MaxDims}

AxesChoices == {<<n>> : n \in 2..MaxN} \cup {<<ny, nx>> : ny \in 2..MaxN, nx \in 2..MaxN}

ShapeInit ==
    /\ axes \in AxesChoices
    /\ made = FALSE
    /\ Pshape = <<>>
    /\ shape_last = ShapeCall("none", <<>>, "ok", "")

\* the body of setP(P) for an array of the given shape
ShapeAssign(op, shape) ==
    /\ IF ShapeCheckOK(shape, axes)
       THEN /\ Pshape' = shape
            /\ made' = TRUE
            /\ shape_last' = ShapeCall(op, <<shape>>, "ok", "")
            /\ UNCHANGED axes
       ELSE /\ shape_last' = ShapeCall(op, <<shape>>, "raise", "DensitiesError")
            /\ UNCHANGED <<axes, made, Pshape>>
    /\ UNCHANGED <<contourVars, gridVars, limitVars>>

\* the body of setP(None): np.zeros([ax.size for ax in self.axes])
ShapeZeroFill(op) ==
    /\ Pshape' = axes
    /\ made' = TRUE
    /\ shape_last' = ShapeCall(op, <<>>, "ok", "")
    /\ UNCHANGED <<axes, contourVars, gridVars, limitVars>>

\* Density1D(x, P) and Density2D(x, y, P): the constructor ends with setP(P)
Construct(shape) == ~made /\ ShapeAssign("construct", shape)
ConstructNone == ~made /\ ShapeZeroFill("construct")

ShapeSetP(shape) == made /\ ShapeAssign("setP", shape)
ShapeSetPNone == made /\ ShapeZeroFill("setP")

\* normalize(by, in_place) on shapes; empty tells whether np.max(P) is 0
ShapeNormalize(by, in_place, empty) ==
    /\ made
    /\ UNCHANGED <<contourVars, gridVars, limitVars>>
    /\ LET raise(err) ==
              /\ shape_last' = ShapeCall("normalize", <<>>, "raise", err)
              /\ UNCHANGED <<axes, made, Pshape>>
           nshape == NormShape(Pshape, axes, by)
       IN  IF by \notin {"integral", "max"} THEN raise("DensitiesError")
           ELSE IF by = "max" /\ empty THEN raise("DensitiesError")
           ELSE IF by = "integral" /\ Len(Pshape) < Len(axes) THEN raise("IndexError")
           ELSE IF ~Broadcastable(Pshape, nshape) THEN raise("ValueError")
           ELSE IF in_place
           THEN /\ shape_last' = ShapeCall("normalize", <<>>, "ok", "")
                /\ UNCHANGED <<axes, made, Pshape>>
           ELSE IF ShapeCheckOK(BroadcastShape(Pshape, nshape), axes)
           THEN /\ Pshape' = BroadcastShape(Pshape, nshape)
                /\ shape_last' = ShapeCall("normalize", <<>>, "ok", "")
                /\ UNCHANGED <<axes, made>>
           ELSE raise("DensitiesError")

InitShape == ShapeInit /\ ContourIdle /\ GridIdle /\ LimitsIdle

NextShape ==
    \/ \E shape \in ArgShapes : Construct(shape)
    \/ ConstructNone
    \/ \E shape \in ArgShapes : ShapeSetP(shape)
    \/ ShapeSetPNone
    \/ \E by \in {"integral", "max", "mean"}, in_place \in BOOLEAN, empty \in BOOLEAN :
           ShapeNormalize(by, in_place, empty)

SpecShape == InitShape /\ [][NextShape]_vars

\* C4: once constructed, and after any setP or normalize, the shape of P is
\* exactly the tuple of axis sizes; construction and setP raise for every
\* array whose shape differs from it in a size or in the number of
\* dimensions.
ShapeMatchesAxes ==
    /\ made => Pshape = axes
    /\ (shape_last.op \in {"construct", "setP"} /\ shape_last.arg # <<>>
            /\ shape_last.arg[1] # axes)
        => shape_last = ShapeCall(shape_last.op, shape_last.arg, "raise", "DensitiesError")

=============================================================================
